---------------------------- MODULE Spec2Model ----------------------------
(***************************************************************************)
(* Catnip: motion-triggered recording.  The model follows catnip/manager.py *)
(* (Manager.run, Manager.record, Manager.detect and their helpers),         *)
(* catnip/camera.py (Camera.capture, the Frame pipeline) and catnip/event.py*)
(* (Event.__init__, Event.should_update_trigger, Event.update_trigger).     *)
(*                                                                         *)
(* Three threads share the Manager: the main thread (run), the capture     *)
(* loop (record) and the detection loop (detect).  Every statement of a    *)
(* loop that reads or writes shared state is one step, so that the other   *)
(* thread can run between any two of them.                                 *)
(*                                                                         *)
(* Manager._create_event calls Event(frame, path, width, height, fps),     *)
(* while Event.__init__ of event.py takes the trigger alone: the call      *)
(* raises TypeError every time (CreateEventRaises).  Manager.event is      *)
(* therefore None in every reachable state, and the statements of          *)
(* manager.py that need an event (the body of `if self.event:` in detect,  *)
(* the dispatch of event_start, self.event.add_frame in record) are never  *)
(* executed; they have no step here.                                       *)
(***************************************************************************)
EXTENDS Integers, Sequences, FiniteSets, TLC

\* ------------------------------------------------------------------ bounds
MaxTime == 3           \* the wall clock runs 0..MaxTime and then saturates
MaxObjects == 2        \* moving objects a scene may show
recording_length == 2  \* Manager(recording_length=...), in clock ticks
detection_wait == 1    \* Manager(detection_wait=...), in clock ticks
CameraWidth == 8       \* width of a captured frame, in pixels

Objects == 1..MaxObjects
\* A scene shows the first k objects, for a k up to MaxObjects.
Scenes == {1..k : k \in 0..MaxObjects}
Names == {"event_start", "event_end"}

\* ------------------------------------------------------------- Frame
\* A frame is its picture (the set of objects it shows), its width and
\* whether it went through the grayscale and blur conversions.
RawFrame(scene) == [px |-> scene, w |-> CameraWidth, grey |-> FALSE, blurred |-> FALSE]

resize(frame, new_size) == [frame EXCEPT !.w = new_size]
recolor(frame) == [frame EXCEPT !.grey = TRUE]
blur(frame) == [frame EXCEPT !.blurred = TRUE]

\* resize(width // 4), recolor(COLOR_BGR2GRAY), blur(): the chain both loops
\* apply to a captured frame.
MotionFrame(frame) == blur(recolor(resize(frame, frame.w \div 4)))

\* Every object that one picture shows and the other does not leaves one
\* blob of at least minimum_area in the dilated threshold of the difference.
contours(frame, other_frame) ==
    (frame.px \ other_frame.px) \cup (other_frame.px \ frame.px)

is_similar(frame, other_frame) == Cardinality(contours(frame, other_frame)) = 0

RawFrames == {RawFrame(s) : s \in Scenes}
MotionFrames == {MotionFrame(f) : f \in RawFrames}

\* Python's None in a slot that holds a Frame.
NoneFrame == [px |-> {}, w |-> 0, grey |-> FALSE, blurred |-> FALSE]

\* ------------------------------------------------------------- Event
\* Python's None in Manager.event.
NoEvent == [trigger |-> NoneFrame, updated |-> 0, path_index |-> 0]

\* Event.should_update_trigger(delta) at wall-clock time `time`
should_update_trigger(ev, delta, time) == ev.updated <= time - delta

\* Event.update_trigger(frame) at wall-clock time `time`
update_trigger(ev, frame, time) == [ev EXCEPT !.trigger = frame, !.updated = time]

\* ------------------------------------------------------------- state
VARIABLES
    exit_event,          \* Manager.exit_event is set
    latest_frame,        \* Manager.latest_frame
    latest_frame_lock,   \* holder of Manager.latest_frame_lock
    average_frame,       \* Manager.average_frame, the background model
    average_frame_lock,  \* holder of Manager.average_frame_lock
    event,               \* Manager.event
    callback_functions,  \* Manager.callback_functions: name -> function or "None"
    now,                 \* time.time()
    pc_m,                \* where Manager.run is
    pc_r,                \* where Manager.record is
    pc_d,                \* where Manager.detect is
    r_frame,             \* record's local `frame`
    r_error,             \* the exception that ended record, or "none"
    d_start,             \* detect's local `start`
    d_frame,             \* detect's local `frame`
    d_blur,              \* detect's local `blur`
    d_contours,          \* detect's local `contours`
    d_sleep,             \* argument of detect's last time.sleep at the cycle end
    d_wake,              \* when that sleep ends
    called,              \* the callback invocations so far: name, function, event
    dispatched,          \* the calls of _do_callback so far: name, event
    created,             \* events constructed so far
    camera_released      \* calls of Camera.release so far

shared == <<exit_event, latest_frame, latest_frame_lock, average_frame,
            average_frame_lock, event, callback_functions>>
r_vars == <<pc_r, r_frame, r_error>>
d_vars == <<pc_d, d_start, d_frame, d_blur, d_contours, d_sleep, d_wake>>
hist == <<called, dispatched, created, camera_released>>
vars == <<shared, now, pc_m, r_vars, d_vars, hist>>

\* The functions a caller registers as callbacks, and "None" for an absent
\* entry of Manager.callback_functions.
Funcs == {"func", "other_func"}

\* No exception has ended the thread.
NoError == [type |-> "none", attribute |-> "none"]

Init ==
    /\ exit_event = FALSE
    /\ latest_frame = NoneFrame
    /\ latest_frame_lock = "free"
    /\ average_frame = NoneFrame
    /\ average_frame_lock = "free"
    /\ event = NoEvent
    /\ callback_functions = [n \in Names |-> "None"]
    /\ now = 0
    /\ pc_m = "init"
    /\ pc_r = "idle"
    /\ pc_d = "idle"
    /\ r_frame = NoneFrame
    /\ r_error = NoError
    /\ d_start = 0
    /\ d_frame = NoneFrame
    /\ d_blur = NoneFrame
    /\ d_contours = 0
    /\ d_sleep = 0
    /\ d_wake = 0
    /\ called = <<>>
    /\ dispatched = <<>>
    /\ created = 0
    /\ camera_released = 0

\* ------------------------------------------------------------- the clock
\* Wall-clock time passes; at MaxTime the clock saturates.
Tick ==
    /\ now < MaxTime
    /\ now' = now + 1
    /\ UNCHANGED <<shared, pc_m, r_vars, d_vars, hist>>

\* time.sleep(seconds) started at `time` is over.
SleepOver(wake) == now >= wake \/ now = MaxTime

\* ------------------------------------------------------------- Manager.on
\* @manager.on(name) applied to func: callback_functions[name] = func, at
\* any time, also while the loops run, and also over a function that is
\* already registered.
on(name, func) ==
    /\ callback_functions[name] # func
    /\ callback_functions' = [callback_functions EXCEPT ![name] = func]
    /\ UNCHANGED <<exit_event, latest_frame, latest_frame_lock, average_frame,
                   average_frame_lock, event, now, pc_m, r_vars, d_vars, hist>>

\* ------------------------------------------------------------- Manager.run
\* signal.signal(SIGINT, signal_handler); signal.signal(SIGTERM, ...)
RunInstall ==
    /\ pc_m = "init"
    /\ pc_m' = "start_record"
    /\ UNCHANGED <<shared, now, r_vars, d_vars, hist>>

\* threads[0].start(): record
RunStartRecord ==
    /\ pc_m = "start_record"
    /\ pc_m' = "start_detect"
    /\ pc_r' = "loop"
    /\ UNCHANGED <<shared, now, r_frame, r_error, d_vars, hist>>

\* threads[1].start(): detect
RunStartDetect ==
    /\ pc_m = "start_detect"
    /\ pc_m' = "join_record"
    /\ pc_d' = "wait"
    /\ UNCHANGED <<shared, now, r_vars, d_start, d_frame, d_blur, d_contours,
                   d_sleep, d_wake, hist>>

\* A thread is alive from its start until its target returns or raises.
RecordAlive == pc_r \notin {"idle", "done", "raised"}
DetectAlive == pc_d \notin {"idle", "done", "raised"}

\* while threads[0].is_alive(): threads[0].join(1)
RunJoinRecord ==
    /\ pc_m = "join_record"
    /\ ~RecordAlive
    /\ pc_m' = "join_detect"
    /\ UNCHANGED <<shared, now, r_vars, d_vars, hist>>

\* while threads[1].is_alive(): threads[1].join(1)
RunJoinDetect ==
    /\ pc_m = "join_detect"
    /\ ~DetectAlive
    /\ pc_m' = "shutdown"
    /\ UNCHANGED <<shared, now, r_vars, d_vars, hist>>

\* Manager.shutdown(): self.camera.release(); then run returns
shutdown ==
    /\ pc_m = "shutdown"
    /\ pc_m' = "returned"
    /\ camera_released' = camera_released + 1
    /\ UNCHANGED <<shared, now, r_vars, d_vars, called, dispatched, created>>

\* a handler that flips the flag instead of setting it
signal_handler_Toggle ==
    /\ pc_m # "init"
    /\ exit_event' = ~exit_event
    /\ UNCHANGED <<latest_frame, latest_frame_lock, average_frame,
                   average_frame_lock, event, callback_functions, now, pc_m,
                   r_vars, d_vars, hist>>

\* SIGINT or SIGTERM arrives once the handlers are installed:
\* signal_handler sets exit_event.
signal_handler ==
    /\ pc_m # "init"
    /\ exit_event' = TRUE
    /\ UNCHANGED <<latest_frame, latest_frame_lock, average_frame,
                   average_frame_lock, event, callback_functions, now, pc_m,
                   r_vars, d_vars, hist>>

\* ------------------------------------------------------------- Manager.record
\* while not self.exit_event.is_set():
RecordLoop ==
    /\ pc_r = "loop"
    /\ pc_r' = IF exit_event THEN "done" ELSE "capture"
    /\ r_frame' = NoneFrame
    /\ UNCHANGED <<shared, now, pc_m, r_error, d_vars, hist>>

\* frame = self.camera.capture(), the device delivers a frame
CaptureFrame(scene) ==
    /\ pc_r = "capture"
    /\ r_frame' = RawFrame(scene)
    /\ pc_r' = "lock"
    /\ UNCHANGED <<shared, now, pc_m, r_error, d_vars, hist>>

\* self.camera.capture(), the device delivers no frame: the message of the
\* NoFrame to raise reads self.device_id, which a Camera does not have, so
\* the statement raises AttributeError and record ends with it.
CaptureNoFrame ==
    /\ pc_r = "capture"
    /\ pc_r' = "raised"
    /\ r_error' = [type |-> "AttributeError", attribute |-> "device_id"]
    /\ UNCHANGED <<shared, now, pc_m, r_frame, d_vars, hist>>

\* record entering its critical section without waiting for the lock
RecordLock_NoWait ==
    /\ pc_r = "lock"
    /\ latest_frame_lock' = "record"
    /\ pc_r' = "write"
    /\ UNCHANGED <<exit_event, latest_frame, average_frame, average_frame_lock,
                   event, callback_functions, now, pc_m, r_frame, r_error,
                   d_vars, hist>>

\* with self.latest_frame_lock: (acquire)
RecordLock ==
    /\ pc_r = "lock"
    /\ latest_frame_lock = "free"
    /\ latest_frame_lock' = "record"
    /\ pc_r' = "write"
    /\ UNCHANGED <<exit_event, latest_frame, average_frame, average_frame_lock,
                   event, callback_functions, now, pc_m, r_frame, r_error,
                   d_vars, hist>>

\* record leaving its critical section without the assignment
RecordWrite_NoPublish ==
    /\ pc_r = "write"
    /\ latest_frame_lock' = "free"
    /\ pc_r' = "check"
    /\ UNCHANGED <<exit_event, latest_frame, average_frame, average_frame_lock,
                   event, callback_functions, now, pc_m, r_frame, r_error,
                   d_vars, hist>>

\* self.latest_frame = frame (and release)
RecordWrite ==
    /\ pc_r = "write"
    /\ latest_frame' = r_frame
    /\ latest_frame_lock' = "free"
    /\ pc_r' = "check"
    /\ UNCHANGED <<exit_event, average_frame, average_frame_lock, event,
                   callback_functions, now, pc_m, r_frame, r_error, d_vars,
                   hist>>

\* record without the `if self.average_frame is None`: every captured frame
\* becomes the background model
RecordCheck_Always ==
    /\ pc_r = "check"
    /\ pc_r' = "avg_lock"
    /\ UNCHANGED <<shared, now, pc_m, r_frame, r_error, d_vars, hist>>

\* if self.average_frame is None: ... ; if self.event is None: continue
RecordCheck ==
    /\ pc_r = "check"
    /\ pc_r' = IF average_frame = NoneFrame THEN "avg_lock"
               ELSE IF event = NoEvent THEN "loop"
               ELSE "add_frame"
    /\ UNCHANGED <<shared, now, pc_m, r_frame, r_error, d_vars, hist>>

\* self._update_average_frame(blur): with self.average_frame_lock: (acquire)
RecordAverageLock ==
    /\ pc_r = "avg_lock"
    /\ average_frame_lock = "free"
    /\ average_frame_lock' = "record"
    /\ pc_r' = "avg_write"
    /\ UNCHANGED <<exit_event, latest_frame, latest_frame_lock, average_frame,
                   event, callback_functions, now, pc_m, r_frame, r_error,
                   d_vars, hist>>

\* self.average_frame = blur (and release); continue
RecordAverageWrite ==
    /\ pc_r = "avg_write"
    /\ average_frame' = MotionFrame(r_frame)
    /\ average_frame_lock' = "free"
    /\ pc_r' = "loop"
    /\ UNCHANGED <<exit_event, latest_frame, latest_frame_lock, event,
                   callback_functions, now, pc_m, r_frame, r_error, d_vars,
                   hist>>

record ==
    \/ RecordLoop
    \/ \E scene \in Scenes : CaptureFrame(scene)
    \/ CaptureNoFrame
    \/ RecordLock
    \/ RecordWrite
    \/ RecordCheck
    \/ RecordAverageLock
    \/ RecordAverageWrite

\* ------------------------------------------------------------- Manager.detect
\* detect's locals at the start of an iteration
DetectReset ==
    /\ d_blur' = NoneFrame
    /\ d_contours' = 0
    /\ d_sleep' = 0
    /\ d_wake' = 0

\* while self.latest_frame is None: time.sleep(0.1)
DetectWait ==
    /\ pc_d = "wait"
    /\ latest_frame # NoneFrame
    /\ pc_d' = "loop"
    /\ UNCHANGED <<shared, now, pc_m, r_vars, d_start, d_frame, d_blur,
                   d_contours, d_sleep, d_wake, hist>>

\* while not self.exit_event.is_set(): start = time.time()
DetectLoop ==
    /\ pc_d = "loop"
    /\ IF exit_event
       THEN pc_d' = "done" /\ UNCHANGED d_start
       ELSE pc_d' = "avg_check" /\ d_start' = now
    /\ UNCHANGED <<shared, now, pc_m, r_vars, d_frame, d_blur, d_contours,
                   d_sleep, d_wake, hist>>

\* detect without the `if self.average_frame is None: continue`
DetectAverageCheck_Skip ==
    /\ pc_d = "avg_check"
    /\ pc_d' = "lock"
    /\ UNCHANGED <<shared, now, pc_m, r_vars, d_start, d_frame, d_blur,
                   d_contours, d_sleep, d_wake, hist>>

\* if self.average_frame is None: continue
DetectAverageCheck ==
    /\ pc_d = "avg_check"
    /\ pc_d' = IF average_frame = NoneFrame THEN "loop" ELSE "lock"
    /\ UNCHANGED <<shared, now, pc_m, r_vars, d_start, d_frame, d_blur,
                   d_contours, d_sleep, d_wake, hist>>

\* with self.latest_frame_lock: (acquire)
DetectLock ==
    /\ pc_d = "lock"
    /\ latest_frame_lock = "free"
    /\ latest_frame_lock' = "detect"
    /\ pc_d' = "copy"
    /\ UNCHANGED <<exit_event, latest_frame, average_frame, average_frame_lock,
                   event, callback_functions, now, pc_m, r_vars, d_start,
                   d_frame, d_blur, d_contours, d_sleep, d_wake, hist>>

\* frame = self.latest_frame.copy() (and release)
DetectCopy ==
    /\ pc_d = "copy"
    /\ d_frame' = latest_frame
    /\ latest_frame_lock' = "free"
    /\ pc_d' = "pipeline"
    /\ UNCHANGED <<exit_event, latest_frame, average_frame, average_frame_lock,
                   event, callback_functions, now, pc_m, r_vars, d_start,
                   d_blur, d_contours, d_sleep, d_wake, hist>>

\* a decision whose Idle branch lacks the test for contours
CycleDecision_Always(ev, blurred, found, time) ==
    IF ev # NoEvent
    THEN IF should_update_trigger(ev, recording_length, time)
         THEN IF ~is_similar(ev.trigger, blurred) THEN "update" ELSE "release"
         ELSE "end"
    ELSE "create"

\* What a cycle does with the motion frame `blurred` and `found` contours:
\* if self.event: if should_update_trigger: if not is_similar: "update" the
\* trigger, else "release" (close the event); elif len(contours) > 0:
\* "create" an event; otherwise go to the "end" of the cycle.
CycleDecision(ev, blurred, found, time) ==
    IF ev # NoEvent
    THEN IF should_update_trigger(ev, recording_length, time)
         THEN IF ~is_similar(ev.trigger, blurred) THEN "update" ELSE "release"
         ELSE "end"
    ELSE IF found > 0 THEN "create" ELSE "end"

\* resized, grey, blur; contours = blur.contours(self.average_frame); then
\* the decision of the cycle; self.event.update_trigger(blur); continue
DetectPipeline ==
    /\ pc_d = "pipeline"
    /\ LET blurred == MotionFrame(d_frame)
           found == Cardinality(contours(blurred, average_frame))
           decision == CycleDecision(event, blurred, found, now)
       IN  IF decision = "update"
           THEN /\ event' = update_trigger(event, blurred, now)
                /\ pc_d' = "loop"
                /\ d_frame' = NoneFrame
                /\ DetectReset
           ELSE /\ pc_d' = decision
                /\ d_blur' = blurred
                /\ d_contours' = found
                /\ UNCHANGED <<event, d_frame, d_sleep, d_wake>>
    /\ UNCHANGED <<exit_event, latest_frame, latest_frame_lock, average_frame,
                   average_frame_lock, callback_functions, now, pc_m, r_vars,
                   d_start, hist>>

\* an Event.__init__ that accepts the five arguments of _create_event:
\* the event is built and assigned to self.event
CreateEventRaises_Succeeds ==
    /\ pc_d = "create"
    /\ event' = [trigger |-> d_blur, updated |-> now, path_index |-> 0]
    /\ pc_d' = "end"
    /\ UNCHANGED <<exit_event, latest_frame, latest_frame_lock, average_frame,
                   average_frame_lock, callback_functions, now, pc_m, r_vars,
                   d_start, d_frame, d_blur, d_contours, d_sleep, d_wake, hist>>

\* self.event = self._create_event(blur): _create_event calls
\* Event(frame, path, width, height, fps), Event.__init__(self, trigger)
\* takes one argument, so the call raises TypeError; nothing in
\* _create_event or detect catches it, the assignment and the dispatch of
\* event_start do not happen and detect ends with the exception.
CreateEventRaises ==
    /\ pc_d = "create"
    /\ pc_d' = "raised"
    /\ d_frame' = NoneFrame
    /\ d_start' = 0
    /\ DetectReset
    /\ UNCHANGED <<shared, now, pc_m, r_vars, hist>>

\* The argument of the time.sleep that ends a cycle which took `dur`.
CycleSleep(dur) ==
    IF dur <= detection_wait THEN detection_wait - dur ELSE detection_wait

\* end = time.time(); dur = end - start; time.sleep(...) begins, and the
\* locals of the cycle are not read again
DetectEnd ==
    /\ pc_d = "end"
    /\ d_sleep' = CycleSleep(now - d_start)
    /\ d_wake' = now + CycleSleep(now - d_start)
    /\ pc_d' = "sleep"
    /\ d_start' = 0
    /\ d_frame' = NoneFrame
    /\ d_blur' = NoneFrame
    /\ d_contours' = 0
    /\ UNCHANGED <<shared, now, pc_m, r_vars, hist>>

\* time.sleep(...) returns
DetectWake ==
    /\ pc_d = "sleep"
    /\ SleepOver(d_wake)
    /\ pc_d' = "loop"
    /\ d_sleep' = 0
    /\ d_wake' = 0
    /\ UNCHANGED <<shared, now, pc_m, r_vars, d_start, d_frame, d_blur,
                   d_contours, hist>>

detect ==
    \/ DetectWait
    \/ DetectLoop
    \/ DetectAverageCheck
    \/ DetectLock
    \/ DetectCopy
    \/ DetectPipeline
    \/ CreateEventRaises
    \/ DetectEnd
    \/ DetectWake

run ==
    \/ RunInstall
    \/ RunStartRecord
    \/ RunStartDetect
    \/ RunJoinRecord
    \/ RunJoinDetect
    \/ shutdown

Next ==
    \/ \E name \in Names, func \in Funcs : on(name, func)
    \/ run
    \/ record
    \/ detect
    \/ signal_handler
    \/ Tick

Spec == Init /\ [][Next]_vars

\* The scheduler runs every thread that can take a step, and time passes.
FairSpec ==
    /\ Spec
    /\ WF_vars(run)
    /\ WF_vars(record)
    /\ WF_vars(detect)
    /\ WF_vars(Tick)

\* ------------------------------------------------------------- helpers
\* How often _do_callback was called with `name`.
Dispatches(name) ==
    Cardinality({i \in DOMAIN dispatched : dispatched[i].name = name})

Registered(name) == callback_functions[name] # "None"

C2_Claimed ==
    [][ (pc_d = "create" /\ pc_d' # pc_d) =>
           /\ event' # NoEvent
           /\ event'.trigger = d_blur
           /\ Len(dispatched') = Len(dispatched) + 1
           /\ pc_d' = "end"
      ]_vars

\* ------------------------------------------------------------- C4
\* C4: the sleep that ends a detection cycle is max(0, cadence - elapsed):
\* zero when the cycle took longer than detection_wait.
C4_Claimed ==
    [][ (pc_d = "end" /\ pc_d' = "sleep") =>
           d_sleep' = IF now - d_start > detection_wait THEN 0
                      ELSE detection_wait - (now - d_start) ]_vars

\* ------------------------------------------------------------- C5
\* C5: once the stop flag is set, both loops eventually terminate.
C5_Claimed ==
    exit_event ~> (pc_r \in {"done", "raised"} /\ pc_d \in {"done", "raised"})

\* ------------------------------------------------------------- C6
\* C6: Camera.release is called at most once, only after both loops have
\* ended, which they do only after the stop flag was set, and run has
\* returned exactly when the release has happened.
C6_Claimed ==
    /\ camera_released <= 1
    /\ camera_released = 1 => (~RecordAlive /\ ~DetectAlive /\ exit_event)
    /\ pc_m = "shutdown" => (~RecordAlive /\ ~DetectAlive /\ exit_event)
    /\ pc_d = "done" => exit_event
    /\ pc_r = "done" => exit_event
    /\ pc_m = "returned" <=> camera_released = 1

\* ------------------------------------------------------------- C7
\* C7: record writes latest_frame only while it holds latest_frame_lock,
\* detect copies it only while it holds the lock, the two never hold it
\* together, the lock is free again while detect runs the pipeline, and the
\* snapshot of a cycle is a whole captured frame.
C7_NoTornRead ==
    /\ pc_r = "write" <=> latest_frame_lock = "record"
    /\ pc_d = "copy" <=> latest_frame_lock = "detect"
    /\ pc_d = "copy" => latest_frame \in RawFrames
    /\ pc_d = "pipeline" => (d_frame \in RawFrames /\ latest_frame_lock # "detect")

\* detect runs the pipeline on its snapshot while record, holding the lock,
\* is about to publish a different frame.
C7_Witness ==
    /\ pc_d = "pipeline"
    /\ pc_r = "write"
    /\ latest_frame_lock = "record"
    /\ r_frame # d_frame

\* ------------------------------------------------------------- C9
\* C9: a registration writes the one entry of its name in the table; a
\* callback is invoked only for a name that has a function registered, and
\* it is that function; and with no function registered for event_start
\* the cycle that found a contour invokes nothing, raises nothing and still
\* makes the event Manager.event.
C9_Claimed ==
    [][ /\ callback_functions' # callback_functions =>
             \E name \in Names, func \in Funcs :
                callback_functions' = [callback_functions EXCEPT ![name] = func]
        /\ called' # called =>
             \E name \in Names :
                /\ Registered(name)
                /\ Len(called') = Len(called) + 1
                /\ called'[Len(called')].name = name
                /\ called'[Len(called')].func = callback_functions[name]
        /\ (pc_d = "create" /\ ~Registered("event_start") /\ pc_d' # pc_d) =>
             /\ called' = called
             /\ pc_d' # "raised"
             /\ event' # NoEvent
      ]_vars

\* ------------------------------------------------------------- C10
\* C10: a capture that delivers no frame ends record with NoFrame.
C10_Claimed ==
    (pc_r = "raised" /\ r_error.attribute # "add_frame") => r_error.type = "NoFrame"

\* ------------------------------------------------------------- C11
\* C11: detect reads the background model (the `is None` check and the
\* read for the contours) only while it holds average_frame_lock, and
\* every write of it happens under the lock.
C11_Claimed ==
    /\ pc_d \in {"avg_check", "pipeline"} => average_frame_lock = "detect"
    /\ pc_d = "avg_write" => average_frame_lock = "detect"
    /\ pc_r = "avg_write" => average_frame_lock = "record"

\* ------------------------------------------------------------- C12
\* C12: detect does not cycle before a first frame was captured; in a cycle
\* without a background model it computes no contours, builds no event and
\* dispatches no callback; and a background model, once set, stays set.
C12_NoDetectionWithoutModel ==
    /\ [](/\ pc_d \notin {"idle", "wait"} => latest_frame # NoneFrame
          /\ pc_d \notin {"idle", "wait", "loop", "avg_check", "done"}
                => average_frame # NoneFrame
          /\ average_frame = NoneFrame
                => /\ d_blur = NoneFrame
                   /\ d_contours = 0
                   /\ event = NoEvent
                   /\ created = 0
                   /\ called = <<>>
                   /\ dispatched = <<>>)
    /\ [][average_frame # NoneFrame => average_frame' # NoneFrame]_vars

\* detect is cycling on a captured frame while the background model is
\* still absent.
C12_Witness ==
    /\ pc_d = "avg_check"
    /\ latest_frame # NoneFrame
    /\ average_frame = NoneFrame
    /\ pc_r = "avg_lock"

\* ------------------------------------------------------------- C15
\* C15: a cycle that finds its Active event not yet due, and a cycle that
\* finds no contour while Idle, go to the end of the cycle and leave
\* Manager.event with its trigger and timestamp, the background model and
\* the callback invocations unchanged, in the decision and in the rest of
\* the cycle.
C15_NoActionCycle ==
    [][ /\ ( /\ pc_d = "pipeline"
             /\ pc_d' # pc_d
             /\ \/ (event # NoEvent /\ now - event.updated < recording_length)
                \/ ( /\ event = NoEvent
                     /\ contours(MotionFrame(d_frame), average_frame) = {} ) )
          => /\ pc_d' = "end"
             /\ UNCHANGED <<event, average_frame, called, dispatched, created>>
        /\ (pc_d \in {"end", "sleep"} /\ pc_d' # pc_d)
          => UNCHANGED <<event, average_frame, called, dispatched, created>>
      ]_vars

\* An Idle cycle whose motion frame shows what the background model shows
\* found no contour and is at its end; meanwhile record has published a
\* frame that differs from the model.
C15_Witness ==
    /\ pc_d = "end"
    /\ event = NoEvent
    /\ d_contours = 0
    /\ d_blur = average_frame
    /\ average_frame # NoneFrame
    /\ MotionFrame(latest_frame) # average_frame

\* ------------------------------------------------------------- C16
\* C16: every iteration of the detection loop passes through the cadence
\* sleep before the next one begins: detect comes back to the head of its
\* loop only from the sleep (or, the first time, from the wait for the
\* first frame).
C16_Claimed ==
    [][(pc_d' = "loop" /\ pc_d # "loop") => pc_d \in {"sleep", "wait"}]_vars

C18_Iteration ==
    /\ [](/\ pc_r \in {"check", "avg_lock", "avg_write"} =>
                (latest_frame = r_frame /\ r_frame \in RawFrames)
          /\ pc_r \in {"lock", "write"} => r_frame \in RawFrames
          /\ pc_r \in {"avg_lock", "avg_write"} => average_frame = NoneFrame
          /\ event = NoEvent => pc_r # "add_frame")
    /\ [][ /\ (pc_r = "write" /\ pc_r' # pc_r) =>
                (latest_frame' = r_frame /\ pc_r' = "check")
           /\ (pc_r = "check" /\ pc_r' # pc_r) =>
                pc_r' = IF average_frame = NoneFrame THEN "avg_lock"
                        ELSE IF event = NoEvent THEN "loop" ELSE "add_frame"
           /\ (pc_r = "avg_write" /\ pc_r' # pc_r) =>
                /\ average_frame' = MotionFrame(latest_frame)
                /\ pc_r' = "loop"
           /\ (pc_r \in {"check", "avg_lock", "avg_write"} /\ pc_r' # pc_r) =>
                UNCHANGED event
       ]_vars

\* With the model in place and the Manager Idle, record has published the
\* frame of this iteration, which differs from the one detect works on.
C18_Witness ==
    /\ pc_r = "check"
    /\ latest_frame = r_frame
    /\ average_frame # NoneFrame
    /\ event = NoEvent
    /\ pc_d = "pipeline"
    /\ d_frame # latest_frame

\* ------------------------------------------------------------- C20
\* C20: the stop flag starts unset, is never cleared, and changes only in
\* a step of the signal handler, which changes nothing else: it ends and
\* joins no loop.  A further signal leaves the flag set.
C20_SetOnce ==
    /\ ~exit_event
    /\ [][ /\ exit_event => exit_event'
           /\ exit_event' # exit_event =>
                 /\ pc_m # "init"
                 /\ exit_event'
                 /\ UNCHANGED <<latest_frame, latest_frame_lock, average_frame,
                                average_frame_lock, event, callback_functions,
                                now, pc_m, r_vars, d_vars, hist>>
       ]_vars

\* The flag is set while run is still joining and both loops are alive.
C20_Witness ==
    /\ exit_event
    /\ pc_m = "join_record"
    /\ RecordAlive
    /\ DetectAlive
    /\ pc_d = "pipeline"

\* ------------------------------------------------------------- C21
\* C21: a recording sink that cannot be opened when an event is created
\* leaves the Manager Idle (Manager.event stays None and event_start is
\* dispatched for no event but those that were built), and the failure ends
\* neither loop: detect is never ended by the exception and record goes on.
C21_Claimed ==
    /\ pc_d = "raised" =>
         /\ event = NoEvent
         /\ Dispatches("event_start") = created
    /\ pc_d # "raised"
    /\ pc_r = "raised" => r_error.type = "AttributeError"

=============================================================================
